---- MODULE Spec2Model ----
(***************************************************************************)
(* syncthing_stats: one invocation of the poller.  main launches one       *)
(* goroutine per top-level handler, handleFolders launches one goroutine   *)
(* per folder, and main blocks in wg.Wait() until the shared WaitGroup     *)
(* counter is zero.  The daemon's HTTP API is the environment: its answer  *)
(* bodies are fixed per invocation (daemon), whether a call fails is       *)
(* chosen at each call.                                                    *)
(*                                                                         *)
(* stdout and stderr are bags of lines: the units share no order, and the  *)
(* order inside one unit is fixed by that unit's program counter.          *)
(*                                                                         *)
(* A goroutine's step runs from one WaitGroup operation or loop turn to    *)
(* the next: a fetch, its decoding and the line printed right after it are *)
(* one step, every wg.Add, wg.Done and wrapHandler's write are steps of    *)
(* their own.  Once main has exited no goroutine takes a step.             *)
(***************************************************************************)
EXTENDS Bags, FiniteSets, Integers, Sequences, TLC

\* ------------------------------------------------------------------ bounds
MaxFolders == 2
MaxPeers == 2
MaxDevices == 2

\* --------------------------------------------------------------- constants
Handlers == {"handleFolders", "handleSystemConnections", "handleDevices", "handleReport"}

\* error kinds produced by makeRequest and by the decoders
ErrCreate == "unable to create HTTP request"
ErrTransport == "HTTP request failed"
ErrBody == "invalid response body"

\* a request path and its query argument
Url(path, arg) == <<path, arg>>

NoError == [kind |-> "nil", url |-> Url("", <<>>)]

\* the strings that reach the output (ids, labels, names) are sequences of characters
Pics == <<"P", "i", "c", "s">>
MyDocs == <<"M", "y", " ", "D">>
MyPc == <<"m", "y", " ", "p", "c">>

\* type FolderConfig (the fields the output uses)
FolderConfig == {[ID |-> <<"a">>, Label |-> Pics], [ID |-> <<"b", " ", "b">>, Label |-> MyDocs]}

\* time.Time as decoded from JSON: an instant, seconds and nanoseconds from
\* 1970-01-01T00:00:00Z
Time == {[sec |-> -1, nsec |-> 999999999], [sec |-> 0, nsec |-> 0], [sec |-> 0, nsec |-> 1]}

cutOffTime == [sec |-> 0, nsec |-> 0]

PeerIds == {<<ToString(i)>> : i \in 1..MaxPeers}
DeviceIds == {<<ToString(i)>> : i \in 1..MaxDevices}

\* type DeviceConfig
DeviceConfig == [DeviceID : DeviceIds, Name : {MyPc}]

\* ---------------------------------------------------------------- helpers
SeqsUpTo(S, n) == UNION {[1..k -> S] : k \in 0..n}

Maps(K, V) == UNION {[D -> V] : D \in SUBSET K}

\* time.Time.Before
Before(t, u) == t.sec < u.sec \/ (t.sec = u.sec /\ t.nsec < u.nsec)

\* strings.Replace(s, " ", "\\ ", -1)
RECURSIVE Replace(_)
Replace(s) ==
    IF s = <<>> THEN <<>>
    ELSE (IF Head(s) = " " THEN <<"\\", " ">> ELSE <<Head(s)>>) \o Replace(Tail(s))

\* one line of output
Line(m, id, name, n) == [m |-> m, id |-> id, name |-> name, n |-> n]

\* one message on standard error
Msg(prefix, id, err) == [prefix |-> prefix, id |-> id, kind |-> err.kind, url |-> err.url]

Put(bag, x) == bag (+) SetToBag({x})

Count(bag, x) == CopiesIn(x, bag)

\* how many entries of a sequence satisfy id = ID
RECURSIVE Entries(_, _)
Entries(list, id) ==
    IF list = <<>> THEN 0
    ELSE (IF Head(list).ID = id THEN 1 ELSE 0) + Entries(Tail(list), id)

\* ------------------------------------------------------------------ state
VARIABLES
    server,             \* -server
    apiKeyFlag,         \* -apikey
    useFullReportFlag,  \* -use-full-report
    daemon,             \* what the daemon answers: folders, connections, deviceConfigs,
                        \* deviceStats, and flaky, the paths whose fetch may fail
    mainPc,             \* main: "parse", "launch", "wait", "exited"
    exitCode,           \* the process's exit status, -1 while it runs
    allHandlers,        \* main's list of top-level handlers
    launched,           \* how many of allHandlers main has launched
    wg,                 \* the WaitGroup counter
    hpc,                \* each top-level goroutine's position
    err,                \* each wrapHandler's err
    folderConfig,       \* handleFolders: the decoded folder list
    units,              \* the handleFolderStats goroutines, in launch order
    connStats,          \* handleSystemConnections: stats.Connections
    connTodo,           \* ... the keys its range loop has not visited
    deviceNames,        \* handleDevices: deviceNames
    devStats,           \* handleDevices: stats
    devTodo,            \* ... the keys its range loop has not visited
    stdout,             \* bag of lines written to standard output
    stderr,             \* bag of messages written to standard error
    attempts,           \* bag of paths makeRequest was called with
    calls               \* bag of paths an HTTP request was sent for

flags == <<server, apiKeyFlag, useFullReportFlag, daemon>>
mainVars == <<mainPc, exitCode, allHandlers, launched>>
folderVars == <<folderConfig, units>>
connVars == <<connStats, connTodo>>
devVars == <<deviceNames, devStats, devTodo>>
ioVars == <<stdout, stderr, attempts, calls>>
vars == <<flags, mainVars, wg, hpc, err, folderVars, connVars, devVars, ioVars>>

\* ------------------------------------------------------- the daemon's answers
OneFolder == <<[ID |-> <<"a">>, Label |-> Pics]>>
OnePeer == [p \in {<<"1">>} |-> [At |-> [sec |-> 0, nsec |-> 1]]]
OneDevice == [d \in {<<"1">>} |-> [LastSeen |-> [sec |-> 0, nsec |-> 1]]]
OneDeviceConfig == <<[DeviceID |-> <<"1">>, Name |-> MyPc]>>

\* type Connections (the per-peer map; `at` is the field the handler reads)
Connections == Maps(PeerIds, [At : Time])

\* type Devices
Devices == Maps(DeviceIds, [LastSeen : Time])

\* -server: the default, or a value http.NewRequest cannot parse
Servers == {"http://localhost:8384", "::"}

Start ==
    /\ server \in Servers
    /\ apiKeyFlag \in {"", "key"}
    /\ mainPc = "parse"
    /\ exitCode = -1
    /\ allHandlers = <<>>
    /\ launched = 0
    /\ wg = 0
    /\ hpc = [h \in Handlers |-> "idle"]
    /\ err = [h \in Handlers |-> NoError]
    /\ folderConfig = <<>>
    /\ units = <<>>
    /\ connStats = <<>>
    /\ connTodo = {}
    /\ deviceNames = <<>>
    /\ devStats = <<>>
    /\ devTodo = {}
    /\ stdout = EmptyBag
    /\ stderr = EmptyBag
    /\ attempts = EmptyBag
    /\ calls = EmptyBag

\* the paths of the API
Paths == {"rest/config/folders", "rest/db/status?folder=", "rest/system/connections",
          "rest/config/devices", "rest/stats/device", "rest/svc/report"}

FolderPaths == {"rest/config/folders", "rest/db/status?folder="}

\* any flag; any folder list with any failure of the folder fetches, or at
\* most one folder with any failure of any fetch
Init ==
    /\ Start
    /\ useFullReportFlag \in BOOLEAN
    /\ \E f \in SeqsUpTo(FolderConfig, MaxFolders), flaky \in {FolderPaths, Paths} :
           /\ flaky = Paths => Len(f) <= 1
           /\ daemon = [folders |-> f, connections |-> OnePeer,
                        deviceConfigs |-> OneDeviceConfig, deviceStats |-> OneDevice,
                        flaky |-> flaky]

\* any connections snapshot, with any failure of its fetch
InitConnections ==
    /\ Start
    /\ useFullReportFlag = TRUE
    /\ \E c \in Connections :
           daemon = [folders |-> OneFolder, connections |-> c,
                     deviceConfigs |-> OneDeviceConfig, deviceStats |-> OneDevice,
                     flaky |-> {"rest/system/connections"}]

\* any device configuration and device statistics, with any failure of their fetches
InitDevices ==
    /\ Start
    /\ useFullReportFlag = TRUE
    /\ \E c \in SeqsUpTo(DeviceConfig, 1), d \in Devices :
           daemon = [folders |-> OneFolder, connections |-> OnePeer,
                     deviceConfigs |-> c, deviceStats |-> d,
                     flaky |-> {"rest/config/devices", "rest/stats/device"}]

\* ------------------------------------------------------------- makeRequest
\* how a fetch can end: http.NewRequest fails exactly when the server flag
\* does not parse; otherwise the call or the decoding may fail
Outcomes(url) ==
    IF server = "::" THEN {ErrCreate}
    ELSE IF url[1] \in daemon.flaky THEN {"ok", ErrTransport, ErrBody}
    ELSE {"ok"}

\* makeRequest's error for an outcome of the call
makeRequest(outcome, url) ==
    IF outcome = ErrCreate THEN [kind |-> ErrCreate, url |-> url]
    ELSE IF outcome = ErrTransport THEN [kind |-> ErrTransport, url |-> url]
    ELSE NoError

\* json Decode's error, wrapped by the caller
Decode(outcome) ==
    IF outcome = ErrBody THEN [kind |-> ErrBody, url |-> Url("", <<>>)] ELSE NoError

\* the error a fetch-and-decode ends with
Fetch(outcome, url) ==
    IF makeRequest(outcome, url) # NoError THEN makeRequest(outcome, url) ELSE Decode(outcome)

\* faulty variant: a failed call is made a second time
TrafficRetry(outcome, url) ==
    /\ attempts' = IF outcome = ErrTransport THEN Put(Put(attempts, url), url)
                   ELSE Put(attempts, url)
    /\ calls' = IF outcome = ErrCreate THEN calls
                ELSE IF outcome = ErrTransport THEN Put(Put(calls, url), url)
                ELSE Put(calls, url)

\* the traffic of one makeRequest call: client.Do runs unless NewRequest failed
Traffic(outcome, url) ==
    /\ attempts' = Put(attempts, url)
    /\ calls' = IF outcome = ErrCreate THEN calls ELSE Put(calls, url)

Running == mainPc # "exited"

\* faulty variant: the key check accepts every key
KeyNeverMissing(key) == FALSE

\* ---------------------------------------------------------------------- main
\* the API key check
KeyMissing(key) == key = ""

\* faulty variant: handleReport is in the list whatever the flag
BuildHandlersAlways(full) ==
    <<"handleFolders", "handleSystemConnections", "handleDevices", "handleReport">>

\* the handler list
BuildHandlers(full) ==
    <<"handleFolders", "handleSystemConnections", "handleDevices">>
        \o (IF full THEN <<"handleReport">> ELSE <<>>)

\* flag.Parse(), the key check and the handler list
mainParse ==
    /\ mainPc = "parse"
    /\ IF KeyMissing(apiKeyFlag)
       THEN /\ stdout' = Put(stdout, Line("Invalid API key", <<>>, <<>>, 0))
            /\ mainPc' = "exited"
            /\ exitCode' = 1
            /\ UNCHANGED allHandlers
       ELSE /\ allHandlers' = BuildHandlers(useFullReportFlag)
            /\ mainPc' = "launch"
            /\ UNCHANGED <<stdout, exitCode>>
    /\ UNCHANGED <<flags, launched, wg, hpc, err, folderVars, connVars, devVars,
                   stderr, attempts, calls>>

\* one turn of main's loop: wg.Add(1); go wrapHandler(handler, ...)
mainLaunch ==
    /\ mainPc = "launch"
    /\ wg' = wg + 1
    /\ hpc' = [hpc EXCEPT ![allHandlers[launched + 1]] = "request"]
    /\ launched' = launched + 1
    /\ mainPc' = IF launched + 1 < Len(allHandlers) THEN "launch" ELSE "wait"
    /\ UNCHANGED <<flags, exitCode, allHandlers, err, folderVars, connVars, devVars, ioVars>>

\* faulty variant: the exit status reports the handlers' failures
mainWaitStatus ==
    /\ mainPc = "wait"
    /\ wg = 0
    /\ mainPc' = "exited"
    /\ exitCode' = IF \E h \in Handlers : err[h] # NoError THEN 1 ELSE 0
    /\ UNCHANGED <<flags, allHandlers, launched, wg, hpc, err, folderVars, connVars,
                   devVars, ioVars>>

\* wg.Wait() returns and main returns: the process exits with status 0,
\* whatever the goroutines are doing
mainWait ==
    /\ mainPc = "wait"
    /\ wg = 0
    /\ mainPc' = "exited"
    /\ exitCode' = 0
    /\ UNCHANGED <<flags, allHandlers, launched, wg, hpc, err, folderVars, connVars,
                   devVars, ioVars>>

\* ------------------------------------------------------------ wg.Done()
\* sync.WaitGroup.Done: a negative counter panics, which ends the process
\* with status 2
Done ==
    IF wg > 0
    THEN wg' = wg - 1 /\ UNCHANGED <<mainPc, exitCode>>
    ELSE wg' = wg /\ mainPc' = "exited" /\ exitCode' = 2

\* faulty variant: wg.Done() is not deferred and a failing handler returns
\* without it
ReturnNoDefer(h, e) ==
    /\ err' = [err EXCEPT ![h] = e]
    /\ hpc' = [hpc EXCEPT ![h] = IF e # NoError THEN "returned" ELSE "defer"]

\* a top-level handler ends with the error e
Return(h, e) ==
    /\ err' = [err EXCEPT ![h] = e]
    /\ hpc' = [hpc EXCEPT ![h] = "defer"]

\* ------------------------------------------------------------ handleFolders
ConfigFolders == Url("rest/config/folders", <<>>)

\* faulty variant: the folder id is left out of the path
StatusPathNoId(id) == Url("rest/db/status?folder=", <<>>)

\* fmt.Sprintf("rest/db/status?folder=%s", folderConfig.ID)
StatusPath(id) == Url("rest/db/status?folder=", id)

\* fetch and decode the folder list
handleFoldersRequest(outcome) ==
    /\ Running
    /\ hpc["handleFolders"] = "request"
    /\ Traffic(outcome, ConfigFolders)
    /\ IF Fetch(outcome, ConfigFolders) # NoError
       THEN /\ Return("handleFolders", Fetch(outcome, ConfigFolders))
            /\ UNCHANGED folderConfig
       ELSE /\ folderConfig' = daemon.folders
            /\ IF daemon.folders = <<>>
               THEN Return("handleFolders", NoError)
               ELSE hpc' = [hpc EXCEPT !["handleFolders"] = "range"] /\ UNCHANGED err
    /\ UNCHANGED <<flags, mainVars, wg, units, connVars, devVars, stdout, stderr>>

\* faulty variant: the folder unit is launched without wg.Add(1)
handleFoldersRangeNoAdd ==
    /\ Running
    /\ hpc["handleFolders"] = "range"
    /\ units' = Append(units, [folderConfig |-> folderConfig[Len(units) + 1],
                               pc |-> "request", err |-> NoError])
    /\ IF Len(units) + 1 < Len(folderConfig)
       THEN UNCHANGED <<hpc, err>>
       ELSE Return("handleFolders", NoError)
    /\ UNCHANGED <<flags, mainVars, wg, folderConfig, connVars, devVars, ioVars>>

\* one turn of the range loop: wg.Add(1); go handleFolderStats(apiKey, folder, wg)
handleFoldersRange ==
    /\ Running
    /\ hpc["handleFolders"] = "range"
    /\ wg' = wg + 1
    /\ units' = Append(units, [folderConfig |-> folderConfig[Len(units) + 1],
                               pc |-> "request", err |-> NoError])
    /\ IF Len(units) + 1 < Len(folderConfig)
       THEN UNCHANGED <<hpc, err>>
       ELSE Return("handleFolders", NoError)
    /\ UNCHANGED <<flags, mainVars, folderConfig, connVars, devVars, ioVars>>

\* -------------------------------------------------------- handleFolderStats
\* the message for a failed status fetch or decode
StatusFailure(folder, e) ==
    IF e.kind = ErrBody THEN Msg("invalid response body", <<>>, e)
    ELSE Msg("Unable to read status for", folder.ID, e)

\* the syncthing_folder line of a folder
FolderLine(folder) == Line("syncthing_folder", folder.ID, Replace(folder.Label), 0)

\* faulty variant: a failed fetch returns without a message
handleFolderStatsSilent(i, outcome) ==
    /\ Running
    /\ units[i].pc = "request"
    /\ Traffic(outcome, StatusPath(units[i].folderConfig.ID))
    /\ LET e == Fetch(outcome, StatusPath(units[i].folderConfig.ID))
       IN  /\ units' = [units EXCEPT ![i].err = e, ![i].pc = "defer"]
           /\ IF e.kind = ErrBody
              THEN /\ stderr' = Put(stderr, StatusFailure(units[i].folderConfig, e))
                   /\ UNCHANGED stdout
              ELSE IF e # NoError
              THEN UNCHANGED <<stdout, stderr>>
              ELSE /\ stdout' = Put(stdout, FolderLine(units[i].folderConfig))
                   /\ UNCHANGED stderr
    /\ UNCHANGED <<flags, mainVars, wg, hpc, err, folderConfig, connVars, devVars>>

\* faulty variant: no return after the failure message, the line is printed as well
handleFolderStatsFallThrough(i, outcome) ==
    /\ Running
    /\ units[i].pc = "request"
    /\ Traffic(outcome, StatusPath(units[i].folderConfig.ID))
    /\ LET e == Fetch(outcome, StatusPath(units[i].folderConfig.ID))
       IN  /\ units' = [units EXCEPT ![i].err = e, ![i].pc = "defer"]
           /\ stderr' = IF e # NoError
                        THEN Put(stderr, StatusFailure(units[i].folderConfig, e))
                        ELSE stderr
           /\ stdout' = Put(stdout, FolderLine(units[i].folderConfig))
    /\ UNCHANGED <<flags, mainVars, wg, hpc, err, folderConfig, connVars, devVars>>

\* the body of a folder unit: fetch and decode the status, then the line on
\* standard output, or the failure on standard error
handleFolderStats(i, outcome) ==
    /\ Running
    /\ units[i].pc = "request"
    /\ Traffic(outcome, StatusPath(units[i].folderConfig.ID))
    /\ LET e == Fetch(outcome, StatusPath(units[i].folderConfig.ID))
       IN  /\ units' = [units EXCEPT ![i].err = e, ![i].pc = "defer"]
           /\ IF e # NoError
              THEN /\ stderr' = Put(stderr, StatusFailure(units[i].folderConfig, e))
                   /\ UNCHANGED stdout
              ELSE /\ stdout' = Put(stdout, FolderLine(units[i].folderConfig))
                   /\ UNCHANGED stderr
    /\ UNCHANGED <<flags, mainVars, wg, hpc, err, folderConfig, connVars, devVars>>

\* faulty variant: a failed unit calls wg.Done() on its error path and again
\* through the defer
handleFolderStatsDoneTwice(i) ==
    /\ Running
    /\ units[i].pc = "defer"
    /\ IF units[i].err = NoError
       THEN Done
       ELSE IF wg > 1
       THEN wg' = wg - 2 /\ UNCHANGED <<mainPc, exitCode>>
       ELSE wg' = 0 /\ mainPc' = "exited" /\ exitCode' = 2
    /\ units' = [units EXCEPT ![i].pc = "finished"]
    /\ UNCHANGED <<flags, allHandlers, launched, hpc, err, folderConfig, connVars,
                   devVars, ioVars>>

\* the deferred wg.Done() of a folder unit
handleFolderStatsDone(i) ==
    /\ Running
    /\ units[i].pc = "defer"
    /\ Done
    /\ units' = [units EXCEPT ![i].pc = "finished"]
    /\ UNCHANGED <<flags, allHandlers, launched, hpc, err, folderConfig, connVars,
                   devVars, ioVars>>

\* -------------------------------------------------- handleSystemConnections
SystemConnections == Url("rest/system/connections", <<>>)

\* the syncthing_connection_totals line
ConnectionTotals(stats) ==
    Line("syncthing_connection_totals", <<>>, <<>>, Cardinality(DOMAIN stats))

\* faulty variant: the totals line is not printed ahead of the loop
handleSystemConnectionsRequestNoTotals(outcome) ==
    /\ Running
    /\ hpc["handleSystemConnections"] = "request"
    /\ Traffic(outcome, SystemConnections)
    /\ IF Fetch(outcome, SystemConnections) # NoError
       THEN /\ Return("handleSystemConnections", Fetch(outcome, SystemConnections))
            /\ UNCHANGED connVars
       ELSE /\ connStats' = daemon.connections
            /\ connTodo' = DOMAIN daemon.connections
            /\ IF DOMAIN daemon.connections = {}
               THEN Return("handleSystemConnections", NoError)
               ELSE hpc' = [hpc EXCEPT !["handleSystemConnections"] = "range"]
                    /\ UNCHANGED err
    /\ UNCHANGED <<flags, mainVars, wg, folderVars, devVars, stdout, stderr>>

\* fetch and decode the snapshot, then the totals line
handleSystemConnectionsRequest(outcome) ==
    /\ Running
    /\ hpc["handleSystemConnections"] = "request"
    /\ Traffic(outcome, SystemConnections)
    /\ IF Fetch(outcome, SystemConnections) # NoError
       THEN /\ Return("handleSystemConnections", Fetch(outcome, SystemConnections))
            /\ UNCHANGED <<connVars, stdout>>
       ELSE /\ connStats' = daemon.connections
            /\ connTodo' = DOMAIN daemon.connections
            /\ stdout' = Put(stdout, ConnectionTotals(daemon.connections))
            /\ IF DOMAIN daemon.connections = {}
               THEN Return("handleSystemConnections", NoError)
               ELSE hpc' = [hpc EXCEPT !["handleSystemConnections"] = "range"]
                    /\ UNCHANGED err
    /\ UNCHANGED <<flags, mainVars, wg, folderVars, devVars, stderr>>

\* faulty variant: a peer at the cut-off instant counts as updated
ConnectionUpdatedOrEqual(connectionStat) == ~Before(connectionStat.At, cutOffTime)

\* cutOffTime.Before(connectionStat.At)
ConnectionUpdated(connectionStat) == Before(cutOffTime, connectionStat.At)

ConnectionLine(connectionId) == Line("syncthing_connection", connectionId, <<>>, 0)

\* one turn of the range loop over stats.Connections, in the map's order
handleSystemConnectionsRange ==
    /\ Running
    /\ hpc["handleSystemConnections"] = "range"
    /\ \E connectionId \in connTodo :
           /\ connTodo' = connTodo \ {connectionId}
           /\ stdout' = IF ConnectionUpdated(connStats[connectionId])
                        THEN Put(stdout, ConnectionLine(connectionId))
                        ELSE stdout
           /\ IF connTodo = {connectionId}
              THEN Return("handleSystemConnections", NoError)
              ELSE UNCHANGED <<hpc, err>>
    /\ UNCHANGED <<flags, mainVars, wg, folderVars, connStats, devVars, stderr,
                   attempts, calls>>

\* ------------------------------------------------------------ handleDevices
ConfigDevices == Url("rest/config/devices", <<>>)
StatsDevice == Url("rest/stats/device", <<>>)

\* deviceNames[device.DeviceID] = device.Name, for each entry in order
RECURSIVE NameMap(_)
NameMap(deviceConfigs) ==
    IF deviceConfigs = <<>> THEN <<>>
    ELSE LET n == Len(deviceConfigs)
             rest == NameMap(SubSeq(deviceConfigs, 1, n - 1))
             last == deviceConfigs[n]
         IN  [id \in DOMAIN rest \cup {last.DeviceID} |->
                 IF id = last.DeviceID THEN last.Name ELSE rest[id]]

\* faulty variant: a missing key reads as a placeholder
DeviceNameUnknown(names, deviceId) ==
    IF deviceId \in DOMAIN names THEN names[deviceId] ELSE <<"?">>

\* deviceNames[deviceId]: a missing key reads as the empty string
DeviceName(names, deviceId) == IF deviceId \in DOMAIN names THEN names[deviceId] ELSE <<>>

\* faulty variant: no return after a failed configuration fetch, the
\* statistics are fetched all the same
handleDevicesConfigContinue(outcome) ==
    /\ Running
    /\ hpc["handleDevices"] = "request"
    /\ Traffic(outcome, ConfigDevices)
    /\ err' = [err EXCEPT !["handleDevices"] = Fetch(outcome, ConfigDevices)]
    /\ deviceNames' = IF Fetch(outcome, ConfigDevices) # NoError THEN <<>>
                      ELSE NameMap(daemon.deviceConfigs)
    /\ hpc' = [hpc EXCEPT !["handleDevices"] = "stats"]
    /\ UNCHANGED <<flags, mainVars, wg, folderVars, connVars, devStats, devTodo,
                   stdout, stderr>>

\* fetch and decode the device configuration, build the name map
handleDevicesConfig(outcome) ==
    /\ Running
    /\ hpc["handleDevices"] = "request"
    /\ Traffic(outcome, ConfigDevices)
    /\ IF Fetch(outcome, ConfigDevices) # NoError
       THEN /\ Return("handleDevices", Fetch(outcome, ConfigDevices))
            /\ UNCHANGED deviceNames
       ELSE /\ deviceNames' = NameMap(daemon.deviceConfigs)
            /\ hpc' = [hpc EXCEPT !["handleDevices"] = "stats"]
            /\ UNCHANGED err
    /\ UNCHANGED <<flags, mainVars, wg, folderVars, connVars, devStats, devTodo,
                   stdout, stderr>>

\* the syncthing_device_totals line
DeviceTotals(stats) == Line("syncthing_device_totals", <<>>, <<>>, Cardinality(DOMAIN stats))

\* fetch and decode the device statistics, then the totals line
handleDevicesStats(outcome) ==
    /\ Running
    /\ hpc["handleDevices"] = "stats"
    /\ Traffic(outcome, StatsDevice)
    /\ IF Fetch(outcome, StatsDevice) # NoError
       THEN /\ Return("handleDevices", Fetch(outcome, StatsDevice))
            /\ UNCHANGED <<devStats, devTodo, stdout>>
       ELSE /\ devStats' = daemon.deviceStats
            /\ devTodo' = DOMAIN daemon.deviceStats
            /\ stdout' = Put(stdout, DeviceTotals(daemon.deviceStats))
            /\ IF DOMAIN daemon.deviceStats = {}
               THEN Return("handleDevices", NoError)
               ELSE hpc' = [hpc EXCEPT !["handleDevices"] = "range"] /\ UNCHANGED err
    /\ UNCHANGED <<flags, mainVars, wg, folderVars, connVars, deviceNames, stderr>>

\* cutOffTime.Before(deviceStat.LastSeen)
DeviceSeen(deviceStat) == Before(cutOffTime, deviceStat.LastSeen)

DeviceLine(names, deviceId) ==
    Line("syncthing_device", deviceId, Replace(DeviceName(names, deviceId)), 0)

\* one turn of the range loop over stats, in the map's order
handleDevicesRange ==
    /\ Running
    /\ hpc["handleDevices"] = "range"
    /\ \E deviceId \in devTodo :
           /\ devTodo' = devTodo \ {deviceId}
           /\ stdout' = IF DeviceSeen(devStats[deviceId])
                        THEN Put(stdout, DeviceLine(deviceNames, deviceId))
                        ELSE stdout
           /\ IF devTodo = {deviceId}
              THEN Return("handleDevices", NoError)
              ELSE UNCHANGED <<hpc, err>>
    /\ UNCHANGED <<flags, mainVars, wg, folderVars, connVars, deviceNames, devStats,
                   stderr, attempts, calls>>

\* ------------------------------------------------------------- handleReport
SvcReport == Url("rest/svc/report", <<>>)

ReportLine == Line("syncthing_report", <<>>, <<>>, 0)

\* fetch and decode the report, then its line
handleReport(outcome) ==
    /\ Running
    /\ hpc["handleReport"] = "request"
    /\ Traffic(outcome, SvcReport)
    /\ Return("handleReport", Fetch(outcome, SvcReport))
    /\ stdout' = IF Fetch(outcome, SvcReport) # NoError THEN stdout
                 ELSE Put(stdout, ReportLine)
    /\ UNCHANGED <<flags, mainVars, wg, folderVars, connVars, devVars, stderr>>

\* -------------------------------------------------------------- wrapHandler
\* the deferred wg.Done() of a top-level handler: it runs as the handler
\* returns, before wrapHandler looks at the error; with a nil error
\* wrapHandler has nothing left to do and the goroutine ends
handlerDone(h) ==
    /\ Running
    /\ hpc[h] = "defer"
    /\ Done
    /\ hpc' = [hpc EXCEPT ![h] = IF err[h] # NoError THEN "returned" ELSE "finished"]
    /\ UNCHANGED <<flags, allHandlers, launched, err, folderVars, connVars, devVars, ioVars>>

\* faulty variant: a handler's failure ends the process
wrapHandlerFatal(h) ==
    /\ Running
    /\ hpc[h] = "returned"
    /\ stderr' = Put(stderr, Msg("Failed", <<>>, err[h]))
    /\ hpc' = [hpc EXCEPT ![h] = "finished"]
    /\ mainPc' = "exited"
    /\ exitCode' = 1
    /\ UNCHANGED <<flags, allHandlers, launched, wg, err, folderVars, connVars, devVars,
                   stdout, attempts, calls>>

\* if err != nil { os.Stderr.Write("Failed: ...") }; the goroutine ends
wrapHandler(h) ==
    /\ Running
    /\ hpc[h] = "returned"
    /\ stderr' = Put(stderr, Msg("Failed", <<>>, err[h]))
    /\ hpc' = [hpc EXCEPT ![h] = "finished"]
    /\ UNCHANGED <<flags, mainVars, wg, err, folderVars, connVars, devVars, stdout,
                   attempts, calls>>

\* ------------------------------------------------------------ specification
Next ==
    \/ mainParse
    \/ mainLaunch
    \/ mainWait
    \/ \E outcome \in Outcomes(ConfigFolders) : handleFoldersRequest(outcome)
    \/ handleFoldersRange
    \/ \E i \in DOMAIN units :
           \E outcome \in Outcomes(StatusPath(units[i].folderConfig.ID)) :
               handleFolderStats(i, outcome)
    \/ \E i \in DOMAIN units : handleFolderStatsDone(i)
    \/ \E outcome \in Outcomes(SystemConnections) : handleSystemConnectionsRequest(outcome)
    \/ handleSystemConnectionsRange
    \/ \E outcome \in Outcomes(ConfigDevices) : handleDevicesConfig(outcome)
    \/ \E outcome \in Outcomes(StatsDevice) : handleDevicesStats(outcome)
    \/ handleDevicesRange
    \/ \E outcome \in Outcomes(SvcReport) : handleReport(outcome)
    \/ \E h \in Handlers : handlerDone(h)
    \/ \E h \in Handlers : wrapHandler(h)

Spec == Init /\ [][Next]_vars

SpecConnections == InitConnections /\ [][Next]_vars

SpecDevices == InitDevices /\ [][Next]_vars

\* the scheduler runs some goroutine whenever one can take a step, and every
\* HTTP call returns (its client has a 2 second timeout): a step that stays
\* possible is eventually taken
Fairness == WF_vars(Next)

\* any number of folders up to MaxFolders, with any failure of the folder
\* fetches, or at most one folder with any failure of any fetch
InitFair ==
    /\ Start
    /\ useFullReportFlag = TRUE
    /\ \E k \in 0..MaxFolders, flaky \in {FolderPaths, Paths} :
           /\ flaky = Paths => k <= 1
           /\ daemon = [folders |-> [j \in 1..k |-> OneFolder[1]], connections |-> OnePeer,
                        deviceConfigs |-> OneDeviceConfig, deviceStats |-> OneDevice,
                        flaky |-> flaky]

SpecFair == InitFair /\ [][Next]_vars /\ Fairness

\* ------------------------------------------------------------------ claims
Exited == mainPc = "exited" /\ apiKeyFlag # ""

Launched == {h \in Handlers : h # "handleReport" \/ useFullReportFlag}

Over(h) == hpc[h] \in {"returned", "finished"}

FolderIds == {c.ID : c \in FolderConfig}

Measurements == {"syncthing_folder", "syncthing_connection_totals", "syncthing_connection",
                 "syncthing_device_totals", "syncthing_device", "syncthing_report"}

\* how many lines of a measurement are on standard output
RECURSIVE Sum(_, _)
Sum(bag, S) ==
    IF S = {} THEN 0
    ELSE LET x == CHOOSE y \in S : TRUE IN Count(bag, x) + Sum(bag, S \ {x})

Lines(m) == Sum(stdout, {x \in BagToSet(stdout) : x.m = m})

StatusAttempts(id) == Count(attempts, <<"rest/db/status?folder=", id>>)

Succeeded(c) ==
    {i \in DOMAIN units :
        units[i].folderConfig = c /\ units[i].pc # "request" /\ units[i].err = NoError}

AfterEpoch(t) == t.sec > 0 \/ (t.sec = 0 /\ t.nsec > 0)

\* C1: with a non-empty API key the process exits only after every launched
\* top-level handler has returned through its wg.Done(), every entry of the
\* decoded folder list has its folder unit registered, and every folder unit
\* has completed.
WaitAfterEveryUnit ==
    Exited =>
        /\ \A h \in Launched : Over(h)
        /\ err["handleFolders"] = NoError => Len(units) = Len(daemon.folders)
        /\ \A i \in DOMAIN units : units[i].pc = "finished"

WaitAfterEveryUnitWitness ==
    /\ Exited
    /\ useFullReportFlag
    /\ Len(units) = MaxFolders
    /\ \A i \in DOMAIN units : units[i].pc = "finished"

\* C2: whenever a top-level handler returned an error, wrapHandler's message
\* for it is on standard error when the process has exited.
ErrorWrittenBeforeExit ==
    Exited =>
        \A h \in Launched :
            err[h] # NoError =>
                Count(stderr, Msg("Failed", <<>>, err[h]))
                    = Cardinality({g \in Launched : err[g] = err[h]})

\* C3: a decoded folder list of N entries leads to exactly N status fetches
\* by the end of the invocation, one per entry and each in its own unit, with
\* entries of the same id not merged; a failed folder-list fetch or decode
\* leads to none.
StatusFetchPerEntry ==
    /\ \A id \in FolderIds : StatusAttempts(id) <= Entries(folderConfig, id)
    /\ Exited =>
           IF err["handleFolders"] = NoError
           THEN /\ folderConfig = daemon.folders
                /\ Len(units) = Len(folderConfig)
                /\ \A id \in FolderIds : StatusAttempts(id) = Entries(folderConfig, id)
           ELSE /\ units = <<>>
                /\ \A id \in FolderIds : StatusAttempts(id) = 0

StatusFetchPerEntryWitness ==
    /\ Exited
    /\ Len(folderConfig) = 2
    /\ folderConfig[1].ID = folderConfig[2].ID
    /\ StatusAttempts(folderConfig[1].ID) = 2

\* C4: every entry of the decoded folder list has exactly one syncthing_folder
\* line on standard output at the end of the invocation if its own status
\* fetch and decode succeeded and none otherwise, whatever happened to the
\* other folders' units.
FolderLineIffOwnStatus ==
    /\ \A c \in FolderConfig :
           Count(stdout, Line("syncthing_folder", c.ID, Replace(c.Label), 0))
               = Cardinality(Succeeded(c))
    /\ Lines("syncthing_folder") = Cardinality(UNION {Succeeded(c) : c \in FolderConfig})
    /\ Exited =>
           /\ \A i \in DOMAIN units : units[i].pc = "finished"
           /\ err["handleFolders"] = NoError =>
                  /\ Len(units) = Len(daemon.folders)
                  /\ \A i \in DOMAIN units : units[i].folderConfig = daemon.folders[i]

FolderLineIffOwnStatusWitness ==
    /\ Exited
    /\ Len(units) = 2
    /\ units[1].err # NoError
    /\ units[2].err = NoError
    /\ Lines("syncthing_folder") = 1

\* C5: with an empty API key no concurrent unit is ever launched, no request
\* is made, no measurement line is written, and the process exits with a
\* status other than 0.
EmptyKeyIsFatal ==
    apiKeyFlag = "" =>
        /\ \A h \in Handlers : hpc[h] = "idle"
        /\ units = <<>>
        /\ wg = 0
        /\ attempts = EmptyBag
        /\ calls = EmptyBag
        /\ \A m \in Measurements : Lines(m) = 0
        /\ exitCode \in {-1, 1}
        /\ mainPc = "exited" => exitCode = 1

EmptyKeyIsFatalWitness == apiKeyFlag = "" /\ mainPc = "exited" /\ exitCode = 1

\* C6: with a non-empty API key the process's exit status is 0, whatever
\* failed in the top-level handlers and in the folder units.
ExitStatusZero == Exited => exitCode = 0

ExitStatusZeroWitness ==
    /\ Exited
    /\ exitCode = 0
    /\ \A h \in Launched : err[h] # NoError
    /\ {err[h].kind : h \in Launched} = {ErrTransport, ErrBody}

\* the name a device id has in the device configuration, escaped; empty
\* when the id is not configured
RECURSIVE ConfiguredName(_, _)
ConfiguredName(configs, d) ==
    IF configs = <<>> THEN <<>>
    ELSE IF configs[Len(configs)].DeviceID = d THEN Replace(configs[Len(configs)].Name)
    ELSE ConfiguredName(SubSeq(configs, 1, Len(configs) - 1), d)

\* the lines a top-level handler owes once its own fetches and decodes succeeded
ConnectionsComplete ==
    /\ Count(stdout, Line("syncthing_connection_totals", <<>>, <<>>,
                          Cardinality(DOMAIN daemon.connections))) = 1
    /\ \A p \in DOMAIN daemon.connections :
           AfterEpoch(daemon.connections[p].At) =>
               Count(stdout, Line("syncthing_connection", p, <<>>, 0)) = 1

DevicesComplete ==
    /\ Count(stdout, Line("syncthing_device_totals", <<>>, <<>>,
                          Cardinality(DOMAIN daemon.deviceStats))) = 1
    /\ \A d \in DOMAIN daemon.deviceStats :
           AfterEpoch(daemon.deviceStats[d].LastSeen) =>
               Count(stdout, Line("syncthing_device", d,
                                  ConfiguredName(daemon.deviceConfigs, d), 0)) = 1

FoldersComplete ==
    /\ Len(units) = Len(daemon.folders)
    /\ \A i \in DOMAIN units :
           units[i].err = NoError =>
               Count(stdout, Line("syncthing_folder", units[i].folderConfig.ID,
                                  Replace(units[i].folderConfig.Label), 0)) >= 1

\* C7: at the end of the invocation every top-level handler whose own fetches
\* and decodes succeeded has all its lines on standard output, whichever other
\* handlers and folder units failed.
SiblingsUnaffected ==
    Exited =>
        /\ err["handleSystemConnections"] = NoError => ConnectionsComplete
        /\ err["handleDevices"] = NoError => DevicesComplete
        /\ (useFullReportFlag /\ err["handleReport"] = NoError) =>
               Count(stdout, Line("syncthing_report", <<>>, <<>>, 0)) = 1
        /\ err["handleFolders"] = NoError => FoldersComplete

SiblingsUnaffectedWitness ==
    /\ Exited
    /\ useFullReportFlag
    /\ err["handleSystemConnections"] = NoError
    /\ ConnectionsComplete
    /\ err["handleFolders"] # NoError
    /\ err["handleDevices"] # NoError
    /\ err["handleReport"] # NoError

\* C8: a peer of the decoded connections snapshot has one syncthing_connection
\* line once the handler's loop is over if its `at` is strictly after
\* 1970-01-01T00:00:00Z, and never has one otherwise; no peer ever has two.
ConnectionLineIffAfterEpoch ==
    /\ \A p \in PeerIds :
           LET n == Count(stdout, Line("syncthing_connection", p, <<>>, 0))
           IN  /\ n <= 1
               /\ n = 1 => /\ p \in DOMAIN daemon.connections
                           /\ AfterEpoch(daemon.connections[p].At)
    /\ Lines("syncthing_connection") <= Cardinality(DOMAIN daemon.connections)
    /\ (err["handleSystemConnections"] = NoError
            /\ hpc["handleSystemConnections"] \in {"defer", "finished"}) =>
           /\ ConnectionsComplete
           /\ Lines("syncthing_connection")
                  = Cardinality({p \in DOMAIN daemon.connections :
                                     AfterEpoch(daemon.connections[p].At)})

ConnectionLineIffAfterEpochWitness ==
    /\ hpc["handleSystemConnections"] = "finished"
    /\ err["handleSystemConnections"] = NoError
    /\ \E p, q \in DOMAIN connStats :
           /\ connStats[p].At = [sec |-> 0, nsec |-> 0]
           /\ connStats[q].At = [sec |-> 0, nsec |-> 1]
           /\ Count(stdout, Line("syncthing_connection", p, <<>>, 0)) = 0
           /\ Count(stdout, Line("syncthing_connection", q, <<>>, 0)) = 1

Configured(d) == \E k \in DOMAIN daemon.deviceConfigs : daemon.deviceConfigs[k].DeviceID = d

DevicesDecoded ==
    Count(stdout, Line("syncthing_device_totals", <<>>, <<>>,
                       Cardinality(DOMAIN daemon.deviceStats))) = 1

\* C9: once device configuration and device statistics are decoded, the
\* handler does not fail, and when its loop is over a device has one
\* syncthing_device line if its lastSeen is strictly after the epoch and none
\* otherwise, whether or not its id is configured; the line of an id that is
\* not configured carries an empty device_name.
DeviceLineIffSeen ==
    /\ \A x \in BagToSet(stdout) :
           x.m = "syncthing_device" =>
               /\ Count(stdout, x) = 1
               /\ x.id \in DOMAIN daemon.deviceStats
               /\ AfterEpoch(daemon.deviceStats[x.id].LastSeen)
               /\ x.name = ConfiguredName(daemon.deviceConfigs, x.id)
    /\ DevicesDecoded =>
           /\ err["handleDevices"] = NoError
           /\ hpc["handleDevices"] \in {"defer", "finished"} =>
                  \A d \in DOMAIN daemon.deviceStats :
                      AfterEpoch(daemon.deviceStats[d].LastSeen) =>
                          Count(stdout, Line("syncthing_device", d,
                                             ConfiguredName(daemon.deviceConfigs, d), 0)) = 1

DeviceLineIffSeenWitness ==
    /\ hpc["handleDevices"] = "finished"
    /\ DevicesDecoded
    /\ \E d, e \in DOMAIN devStats :
           /\ ~Configured(d)
           /\ Configured(e)
           /\ Count(stdout, Line("syncthing_device", d, <<>>, 0)) = 1
           /\ Count(stdout, Line("syncthing_device", e, <<"m", "y", "\\", " ", "p", "c">>, 0)) = 1

\* C10 as stated: at the end of the invocation there is no syncthing_report
\* line and no request for rest/svc/report without -use-full-report, and
\* exactly one syncthing_report line with it.
ReportLineIffFlag ==
    /\ ~useFullReportFlag =>
           Lines("syncthing_report") = 0 /\ Count(attempts, <<"rest/svc/report", <<>>>>) = 0
    /\ (Exited /\ useFullReportFlag) => Lines("syncthing_report") = 1

\* C10 amended: without -use-full-report there is never a syncthing_report
\* line nor a request for rest/svc/report; with it, at the end of the
\* invocation rest/svc/report has been requested once and there is one
\* syncthing_report line if that fetch and decode succeeded, none if it failed.
ReportLineIffFlagAndFetched ==
    /\ ~useFullReportFlag =>
           Lines("syncthing_report") = 0 /\ Count(attempts, <<"rest/svc/report", <<>>>>) = 0
    /\ Lines("syncthing_report") <= 1
    /\ (Exited /\ useFullReportFlag) =>
           /\ Count(attempts, <<"rest/svc/report", <<>>>>) = 1
           /\ Lines("syncthing_report") = IF err["handleReport"] = NoError THEN 1 ELSE 0

ReportLineIffFlagAndFetchedWitness ==
    /\ Exited
    /\ useFullReportFlag
    /\ err["handleReport"] # NoError
    /\ Lines("syncthing_report") = 0
    /\ Count(attempts, <<"rest/svc/report", <<>>>>) = 1

\* a written tag value has no space but after a backslash
NoRawSpace(value) ==
    \A k \in DOMAIN value : value[k] = " " => (k > 1 /\ value[k - 1] = "\\")

\* C11: every tag value on standard output (folder_id, folder_label,
\* client_id, device_id, device_name) is its source value with each space
\* replaced by backslash-space, so no written tag value has an unescaped space.
TagValuesEscaped ==
    /\ \A x \in BagToSet(stdout) :
           x.m \in Measurements => NoRawSpace(x.id) /\ NoRawSpace(x.name)
    /\ \A i \in DOMAIN units :
           (units[i].pc # "request" /\ units[i].err = NoError) =>
               Count(stdout, Line("syncthing_folder", Replace(units[i].folderConfig.ID),
                                  Replace(units[i].folderConfig.Label), 0)) >= 1

FixedPaths == {"rest/config/folders", "rest/system/connections", "rest/config/devices",
               "rest/stats/device", "rest/svc/report"}

\* C12: no request is made twice: each of the five fixed paths is requested
\* at most once, and the status path of a folder id at most once per entry of
\* the folder list with that id, whether the attempts succeed or fail.
NoRetry ==
    /\ \A path \in FixedPaths :
           Count(attempts, <<path, <<>>>>) <= 1 /\ Count(calls, <<path, <<>>>>) <= 1
    /\ \A id \in FolderIds :
           /\ StatusAttempts(id) <= Entries(daemon.folders, id)
           /\ Count(calls, <<"rest/db/status?folder=", id>>) <= StatusAttempts(id)
    /\ \A u \in BagToSet(attempts) :
           u[1] \in FixedPaths \/ (u[1] = "rest/db/status?folder=" /\ u[2] \in FolderIds)

NoRetryWitness ==
    /\ Exited
    /\ err["handleFolders"] = NoError
    /\ Len(units) = 2
    /\ units[1].folderConfig.ID = units[2].folderConfig.ID
    /\ units[1].err.kind = ErrTransport
    /\ units[2].err.kind = ErrTransport
    /\ StatusAttempts(units[1].folderConfig.ID) = 2

\* C13: under fair scheduling, with every HTTP call returning, the process
\* eventually exits, with the WaitGroup counter at zero, for every folder list
\* and every combination of successes and failures.
EventuallyExits == <>(mainPc = "exited" /\ wg = 0)

EventuallyExitsWitness ==
    /\ Exited
    /\ wg = 0
    /\ Len(units) = 2
    /\ units[1].err = NoError
    /\ units[2].err # NoError
    /\ err["handleFolders"] = NoError

ConnectionsDecoded ==
    hpc["handleSystemConnections"] \notin {"idle", "request"}
        /\ err["handleSystemConnections"] = NoError

\* C14: the connections handler writes one syncthing_connection_totals line
\* when the snapshot is decoded, and it is on standard output before any
\* syncthing_connection line is written; when the fetch or decode fails there
\* is neither a totals line nor a per-peer line.
TotalsBeforePeers ==
    /\ [](/\ Lines("syncthing_connection_totals") <= 1
          /\ ConnectionsDecoded =>
                 Count(stdout, Line("syncthing_connection_totals", <<>>, <<>>,
                                    Cardinality(DOMAIN daemon.connections))) = 1
          /\ err["handleSystemConnections"] # NoError =>
                 /\ Lines("syncthing_connection_totals") = 0
                 /\ Lines("syncthing_connection") = 0)
    /\ [][Lines("syncthing_connection")' > Lines("syncthing_connection") =>
              Lines("syncthing_connection_totals") = 1]_vars

TotalsBeforePeersWitness ==
    /\ hpc["handleSystemConnections"] = "finished"
    /\ err["handleSystemConnections"] = NoError
    /\ Lines("syncthing_connection_totals") = 1
    /\ Lines("syncthing_connection") = 2

\* the units whose status fetch or decode failed, and the message each owes
FailedUnits == {i \in DOMAIN units : units[i].pc # "request" /\ units[i].err # NoError}

Owed(i) ==
    IF units[i].err.kind = ErrBody
    THEN [prefix |-> "invalid response body", id |-> <<>>,
          kind |-> ErrBody, url |-> <<"", <<>>>>]
    ELSE [prefix |-> "Unable to read status for", id |-> units[i].folderConfig.ID,
          kind |-> units[i].err.kind,
          url |-> <<"rest/db/status?folder=", units[i].folderConfig.ID>>]

\* C15: a folder unit whose status fetch or decode failed has its message on
\* standard error before it calls wg.Done(), hence before the process exits.
FailureWrittenBeforeDone ==
    /\ \A i \in FailedUnits :
           Count(stderr, Owed(i)) = Cardinality({j \in FailedUnits : Owed(j) = Owed(i)})
    /\ Exited => \A i \in DOMAIN units : units[i].pc = "finished"

FailureWrittenBeforeDoneWitness ==
    /\ Exited
    /\ Len(units) = 2
    /\ units[1].err.kind = ErrTransport
    /\ units[2].err.kind = ErrBody
    /\ Count(stderr, Owed(1)) = 1
    /\ Count(stderr, Owed(2)) = 1

\* the registered units that have not called wg.Done()
Pending ==
    Cardinality({h \in Handlers : hpc[h] \notin {"idle", "returned", "finished"}})
        + Cardinality({i \in DOMAIN units : units[i].pc # "finished"})

\* C16: the WaitGroup counter is the number of registered units that have
\* not called Done, so it is never negative and Done never panics; and a
\* folder unit is registered only while the counter is at least 1, with
\* handleFolders' own Done still to come.
CounterIsPendingUnits ==
    /\ [](wg = Pending /\ wg >= 0 /\ exitCode # 2)
    /\ [][Len(units') > Len(units) =>
              /\ wg >= 1
              /\ wg' = wg + 1
              /\ hpc["handleFolders"] = "range"
              /\ Len(units') = Len(units) + 1]_vars

CounterIsPendingUnitsWitness ==
    /\ hpc["handleFolders"] = "range"
    /\ wg = 1
    /\ Len(units) = 1
    /\ units[1].pc = "finished"
    /\ units[1].err # NoError
    /\ Len(folderConfig) = 2

ConfigAttempts == Count(attempts, <<"rest/config/devices", <<>>>>)

StatsAttempts == Count(attempts, <<"rest/stats/device", <<>>>>)

DeviceOutput == Lines("syncthing_device_totals") + Lines("syncthing_device")

\* the devices handler has failed without asking for the statistics: its
\* device configuration fetch or decode failed
ConfigFailed ==
    /\ hpc["handleDevices"] \in {"defer", "returned", "finished"}
    /\ err["handleDevices"] # NoError
    /\ StatsAttempts = 0

\* C17: rest/stats/device is requested only after rest/config/devices was
\* fetched and decoded; when the device configuration fetch or decode fails
\* the statistics are never requested and no syncthing_device_totals nor
\* syncthing_device line is written.
DevicesInSequence ==
    /\ [](/\ StatsAttempts <= 1
          /\ StatsAttempts = 1 =>
                 /\ ConfigAttempts = 1
                 /\ DOMAIN deviceNames
                        = {daemon.deviceConfigs[k].DeviceID : k \in DOMAIN daemon.deviceConfigs}
          /\ DeviceOutput > 0 => StatsAttempts = 1
          /\ ConfigFailed => DeviceOutput = 0)
    /\ [][StatsAttempts' > StatsAttempts =>
              /\ hpc["handleDevices"] = "stats"
              /\ err["handleDevices"] = NoError
              /\ ConfigAttempts = 1]_vars
    /\ [][ConfigFailed => ConfigFailed']_vars

DevicesInSequenceWitness ==
    /\ Exited
    /\ server # "::"
    /\ ConfigFailed
    /\ DeviceOutput = 0
    /\ \E d \in DOMAIN daemon.deviceStats : AfterEpoch(daemon.deviceStats[d].LastSeen)

====
